---- MODULE Spec2Model ----
(***************************************************************************)
(* Cron-frequency analysis of ai/starlake/common/__init__.py:              *)
(*   cron_start_time, get_cron_frequency, sort_crons_by_frequency.         *)
(*                                                                         *)
(* Time.  A naive datetime is the number of seconds since                  *)
(* 1970-01-01T00:00:00 on the wall clock it is read from; a timedelta is   *)
(* a number of seconds.  Sub-second parts are not modelled.                *)
(*                                                                         *)
(* Cron expressions.  A 5-field expression is the sequence of its fields   *)
(* (the string split on blanks); a field is one of                         *)
(*     Star         "*"                                                    *)
(*     Val(n)       "n"                                                    *)
(*     Step(s)      "*/s"                                                  *)
(* so <<Val(0), Star, Star, Star, Star>> is "0 * * * *".                   *)
(***************************************************************************)
EXTENDS Integers, Sequences, FiniteSets

\* ------------------------------------------------------------------------
\* datetime / timedelta arithmetic (seconds)
\* ------------------------------------------------------------------------
SecondsPerDay == 24 * 60 * 60

\* timedelta(days=d, weeks=w)
timedelta(d, w) == (d + 7 * w) * SecondsPerDay

\* Proleptic Gregorian calendar, as datetime keeps it: the civil date of a
\* day number (days since 1970-01-01).
CivilFromDays(days) ==
    LET z   == days + 719468
        era == z \div 146097
        doe == z - era * 146097
        yoe == (doe - (doe \div 1460) + (doe \div 36524) - (doe \div 146096)) \div 365
        doy == doe - (365 * yoe + (yoe \div 4) - (yoe \div 100))
        mp  == (5 * doy + 2) \div 153
        d   == doy - ((153 * mp + 2) \div 5) + 1
        m   == IF mp < 10 THEN mp + 3 ELSE mp - 9
        y   == yoe + era * 400 + (IF m <= 2 THEN 1 ELSE 0)
    IN  [year |-> y, month |-> m, day |-> d]

\* The day number of a civil date.
DaysFromCivil(y0, m, d) ==
    LET y   == IF m <= 2 THEN y0 - 1 ELSE y0
        era == y \div 400
        yoe == y - era * 400
        doy == ((153 * (IF m > 2 THEN m - 3 ELSE m + 9) + 2) \div 5) + d - 1
        doe == yoe * 365 + (yoe \div 4) - (yoe \div 100) + doy
    IN  era * 146097 + doe - 719468

\* Cron's day of week (0 = Sunday); 1970-01-01 was a Thursday.
CronWeekday(days) == (days + 4) % 7

\* Naive datetime built from its parts.
DateTime(y, mo, d, h, mi, s) ==
    DaysFromCivil(y, mo, d) * SecondsPerDay + h * 3600 + mi * 60 + s

\* ------------------------------------------------------------------------
\* The cron engine (croniter), as get_cron_frequency uses it
\* ------------------------------------------------------------------------
Star == [kind |-> "star", n |-> 0]
Val(v) == [kind |-> "val", n |-> v]
Step(s) == [kind |-> "step", n |-> s]

\* The value range of each of the five fields:
\* minute, hour, day of month, month, day of week.
FieldRange(i) ==
    CASE i = 1 -> 0 .. 59
      [] i = 2 -> 0 .. 23
      [] i = 3 -> 1 .. 31
      [] i = 4 -> 1 .. 12
      [] i = 5 -> 0 .. 6

FieldMin(i) == IF i \in {3, 4} THEN 1 ELSE 0

\* A field the engine accepts.
FieldOk(i, f) ==
    CASE f.kind = "star" -> TRUE
      [] f.kind = "val"  -> f.n \in FieldRange(i)
      [] f.kind = "step" -> f.n >= 1 /\ f.n <= Cardinality(FieldRange(i))
      [] OTHER -> FALSE

\* The values a field stands for.
Expand(i, f) ==
    CASE f.kind = "star" -> FieldRange(i)
      [] f.kind = "val"  -> {f.n}
      [] f.kind = "step" -> {v \in FieldRange(i) : (v - FieldMin(i)) % f.n = 0}

\* croniter.is_valid: five fields, each within its range.
CronValid(expr) ==
    /\ Len(expr) = 5
    /\ \A i \in 1 .. 5 : FieldOk(i, expr[i])

\* croniter(expr, start_time): the iterator, its cursor at start_time.
croniter(expr, start) ==
    [minutes |-> Expand(1, expr[1]),
     hours   |-> Expand(2, expr[2]),
     doms    |-> Expand(3, expr[3]),
     months  |-> Expand(4, expr[4]),
     dows    |-> Expand(5, expr[5]),
     cur     |-> start]

\* Whether the schedule fires on a day: the month must match, and the day of
\* month and the day of week are alternatives when both are restricted.
DayMatch(it, days) ==
    LET c      == CivilFromDays(days)
        domAll == it.doms = FieldRange(3)
        dowAll == it.dows = FieldRange(5)
        domHit == c.day \in it.doms
        dowHit == CronWeekday(days) \in it.dows
    IN  /\ c.month \in it.months
        /\ IF domAll THEN dowHit
           ELSE IF dowAll THEN domHit
           ELSE domHit \/ dowHit

SetMin(S) == CHOOSE x \in S : \A y \in S : x <= y

\* The smallest element of S that is >= x, or -1.
NextIn(S, x) ==
    IF x \in S THEN x
    ELSE LET above == {v \in S : v > x}
         IN  IF above = {} THEN -1 ELSE SetMin(above)

\* The first firing day at or after `days`: months that cannot match are
\* skipped whole.
RECURSIVE NextDay(_, _)
NextDay(it, days) ==
    LET c == CivilFromDays(days)
    IN  IF c.month \notin it.months
        THEN NextDay(it, IF c.month = 12
                         THEN DaysFromCivil(c.year + 1, 1, 1)
                         ELSE DaysFromCivil(c.year, c.month + 1, 1))
        ELSE IF DayMatch(it, days) THEN days
        ELSE NextDay(it, days + 1)

\* The first occurrence strictly after the cursor: occurrences are whole
\* minutes.
NextOccurrence(it) ==
    LET m0   == (it.cur \div 60) + 1
        d0   == m0 \div 1440
        h0   == (m0 % 1440) \div 60
        mi0  == m0 % 60
        \* within the hour h0, from minute mi0 on
        miA  == IF h0 \in it.hours THEN NextIn(it.minutes, mi0) ELSE -1
        \* a later hour of the day d0
        hB   == NextIn(it.hours, h0 + 1)
        today == DayMatch(it, d0)
        first == SetMin(it.hours) * 3600 + SetMin(it.minutes) * 60
    IN  IF today /\ miA >= 0
        THEN d0 * SecondsPerDay + h0 * 3600 + miA * 60
        ELSE IF today /\ hB >= 0
        THEN d0 * SecondsPerDay + hB * 3600 + SetMin(it.minutes) * 60
        ELSE NextDay(it, d0 + 1) * SecondsPerDay + first

\* Mutant of get_next: the cursor is not moved (as with an iterator that is
\* built anew for every step).
get_next_stale(it) == [value |-> NextOccurrence(it), iter |-> it]

\* iter.get_next(datetime): the next occurrence, which becomes the cursor.
get_next(it) ==
    LET t == NextOccurrence(it)
    IN  [value |-> t, iter |-> [it EXCEPT !.cur = t]]

\* ------------------------------------------------------------------------
\* cron_start_time and the clock
\* ------------------------------------------------------------------------
\* The local zone's offset from UTC, in seconds.
UtcOffset == 2 * 3600

\* datetime.now(): the naive local time at POSIX time `ts`.
datetime_now(ts) == ts + UtcOffset

\* dt.timestamp() of a naive datetime (taken as local time).
timestamp(dt) == dt - UtcOffset

\* datetime.fromtimestamp(ts): naive local time.
fromtimestamp(ts) == ts + UtcOffset

\* cron_start_time(), called when the clock shows `ts`.
cron_start_time(ts) == fromtimestamp(timestamp(datetime_now(ts)))

\* ------------------------------------------------------------------------
\* get_cron_frequency, piece by piece
\* ------------------------------------------------------------------------
None == <<>>
Some(v) == <<v>>

NoIter == [minutes |-> {}, hours |-> {}, doms |-> {}, months |-> {},
           dows |-> {}, cur |-> 0]

\* Lines 47-54: the periods the if/elif chain knows.
SupportedPeriod(p) == p \in {"day", "week", "month"}

\* Mutant of PeriodDelta: the deltas of day and week are exchanged.
PeriodDeltaSwapped(p) ==
    CASE p = "day"   -> timedelta(0, 1)
      [] p = "week"  -> timedelta(1, 0)
      [] p = "month" -> timedelta(30, 0)

\* Lines 47-52: the timedelta added to end_time.
PeriodDelta(p) ==
    CASE p = "day"   -> timedelta(1, 0)
      [] p = "week"  -> timedelta(0, 1)
      [] p = "month" -> timedelta(30, 0)

\* Mutant of InWindow: an occurrence at end_time is counted.
InWindowInclusive(next, end) == next <= end

\* Line 59: whether the occurrence is counted.
InWindow(next, end) == next < end

\* Line 60.
Increment(f) == f + 1

\* Mutant of EntryStep: the else branch that raises is missing; an unknown
\* period leaves end_time at start_time.
EntryStepNoElse(expr, start, p) ==
    IF ~CronValid(expr)
    THEN [pc |-> "done", iter |-> NoIter, end_time |-> 0,
          raised |-> "CroniterBadCronError"]
    ELSE [pc |-> "L58", iter |-> croniter(expr, start),
          end_time |-> IF SupportedPeriod(p) THEN start + PeriodDelta(p)
                       ELSE start,
          raised |-> "none"]

\* Mutant of EntryStep: the period is checked before the iterator is built.
EntryStepPeriodFirst(expr, start, p) ==
    IF ~SupportedPeriod(p)
    THEN [pc |-> "done", iter |-> NoIter, end_time |-> start,
          raised |-> "ValueError"]
    ELSE IF ~CronValid(expr)
    THEN [pc |-> "done", iter |-> NoIter, end_time |-> 0,
          raised |-> "CroniterBadCronError"]
    ELSE [pc |-> "L58", iter |-> croniter(expr, start),
          end_time |-> start + PeriodDelta(p), raised |-> "none"]

\* Lines 43-56: the iterator is built, which parses the expression; then
\* end_time and the period check; then frequency = 0.
\* Gives the frame's (pc, iter, end_time, raised).
EntryStep(expr, start, p) ==
    IF ~CronValid(expr)
    THEN [pc |-> "done", iter |-> NoIter, end_time |-> 0,
          raised |-> "CroniterBadCronError"]
    ELSE IF ~SupportedPeriod(p)
    THEN [pc |-> "done", iter |-> croniter(expr, start), end_time |-> start,
          raised |-> "ValueError"]
    ELSE [pc |-> "L58", iter |-> croniter(expr, start),
          end_time |-> start + PeriodDelta(p), raised |-> "none"]

\* Mutant of LoopOutcome: the occurrence that ends the loop is counted too.
LoopOutcomeCountsLast(g, end, f) ==
    IF InWindow(g.value, end)
    THEN [pc |-> "L58", iter |-> g.iter, next_run |-> g.value,
          frequency |-> Increment(f), ret |-> None]
    ELSE [pc |-> "done", iter |-> g.iter, next_run |-> g.value,
          frequency |-> Increment(f), ret |-> Some(Increment(f))]

\* Lines 59-63: the occurrence `g` = (value, iter) is counted, or ends the
\* loop and the call.  Gives the frame's (pc, iter, next_run, frequency, ret).
LoopOutcome(g, end, f) ==
    IF InWindow(g.value, end)
    THEN [pc |-> "L58", iter |-> g.iter, next_run |-> g.value,
          frequency |-> Increment(f), ret |-> None]
    ELSE [pc |-> "done", iter |-> g.iter, next_run |-> g.value,
          frequency |-> f, ret |-> Some(f)]

\* Lines 57-63: one turn of the loop.
LoopStep(it, end, f) == LoopOutcome(get_next(it), end, f)

\* ------------------------------------------------------------------------
\* sort_crons_by_frequency, piece by piece
\* ------------------------------------------------------------------------
Reverse(s) == [i \in 1 .. Len(s) |-> s[Len(s) + 1 - i]]

\* Line 76: key=lambda x: x[1].
SortKey(pair) == pair[2]

\* Insert `x` into the ascending sequence `s` behind every element whose key
\* is not larger: equal keys keep their order of arrival.
RECURSIVE InsertStable(_, _)
InsertStable(s, x) ==
    IF s = <<>> THEN <<x>>
    ELSE IF SortKey(s[Len(s)]) <= SortKey(x) THEN Append(s, x)
    ELSE Append(InsertStable(SubSeq(s, 1, Len(s) - 1), x), s[Len(s)])

\* list.sort: stable, ascending by key.
RECURSIVE StableSortAsc(_)
StableSortAsc(s) ==
    IF s = <<>> THEN <<>>
    ELSE InsertStable(StableSortAsc(SubSeq(s, 1, Len(s) - 1)), s[Len(s)])

\* Mutant of sorted_reverse: reverse=True is missing.
sorted_ascending(s) == StableSortAsc(s)

\* Mutant of sorted_reverse: sorted ascending, then reversed.
sorted_then_reversed(s) == Reverse(StableSortAsc(s))

\* Line 76: sorted(frequencies, key=..., reverse=True).  With reverse the
\* list is reversed, sorted ascending and reversed again.
sorted_reverse(s) == Reverse(StableSortAsc(Reverse(s)))

\* Mutant of SortStartTime: the value captured at import is used.
SortStartTimeAtDefinition(ts, at_definition) == at_definition

\* Line 73: the start time every expression of one call is counted from.
\* Of the two times within reach, the clock `ts` and the value line 30
\* captured at import, the call reads the clock.
SortStartTime(ts, at_definition) == cron_start_time(ts)

\* Line 74: the start time handed to get_cron_frequency for one expression,
\* given the call's start_time and the clock at that moment.
StartTimeArg(st, ts) == st

\* Mutant of Propagate: the failing expression is swallowed and the pairs
\* built so far are returned.
PropagateSwallowed(exc, partial) ==
    [raised |-> "none", ret |-> Some(sorted_reverse(partial))]

\* Line 74: an exception of get_cron_frequency leaves the comprehension and
\* the function; the pairs built so far are dropped.
\* Gives sort's (raised, ret).
Propagate(exc, partial) == [raised |-> exc, ret |-> None]

\* ------------------------------------------------------------------------
\* Inputs
\* ------------------------------------------------------------------------
EveryMinute == <<Star, Star, Star, Star, Star>>                \* "* * * * *"
Hourly      == <<Val(0), Star, Star, Star, Star>>              \* "0 * * * *"
Daily       == <<Val(0), Val(0), Star, Star, Star>>            \* "0 0 * * *"
Noon        == <<Val(0), Val(12), Star, Star, Star>>           \* "0 12 * * *"
Every8h     == <<Val(0), Step(8), Star, Star, Star>>           \* "0 */8 * * *"
Quarter     == <<Step(15), Step(6), Star, Star, Star>>         \* "*/15 */6 * * *"
Yearly      == <<Val(0), Val(0), Val(1), Val(1), Star>>        \* "0 0 1 1 *"
Mondays     == <<Val(30), Val(6), Star, Star, Val(1)>>         \* "30 6 * * 1"
FirstOrSat  == <<Val(0), Val(0), Val(1), Star, Val(6)>>        \* "0 0 1 * 6"
BadMinute   == <<Val(60), Star, Star, Star, Star>>             \* "60 * * * *"
FourFields  == <<Star, Star, Star, Star>>                      \* "* * * *"

Expressions ==
    {EveryMinute, Hourly, Daily, Quarter, Yearly, Mondays, FirstOrSat,
     BadMinute, FourFields}

Periods == {"day", "week", "month", "year"}

\* Start times: off the minute, on midnight (an occurrence of most of the
\* expressions), just before a new year, and in a leap February.
StartTimes ==
    {DateTime(2026, 10, 30, 20, 30, 17),
     DateTime(2026, 10, 31, 0, 0, 0),
     DateTime(2026, 12, 31, 23, 59, 59),
     DateTime(2024, 2, 5, 6, 30, 0)}

SortExpressions == {Every8h, Daily, Noon, BadMinute}
SortPeriods == {"day", "week", "year"}
MaxLen == 3
SortInputs == UNION {[1 .. n -> SortExpressions] : n \in 0 .. MaxLen}

\* The clock at import: 30 seconds before local midnight.
InitClock == timestamp(DateTime(2026, 10, 30, 23, 59, 30))
\* One tick of the clock: the time from import to local midnight.
TickSeconds == DateTime(2026, 10, 31, 0, 0, 0) - datetime_now(InitClock)
MaxTicks == 2

MonoPeriods == <<"day", "week", "month">>

\* ------------------------------------------------------------------------
\* State
\* ------------------------------------------------------------------------
VARIABLES
    clock,               \* POSIX time
    default_start_time,  \* line 30: the default argument, set at import
    \* the frame of get_cron_frequency
    pc, cron_expression, start_time, period, iter, end_time, frequency,
    next_run, raised, ret,
    steps,               \* get_next calls of the frame (history)
    \* the frame of sort_crons_by_frequency
    sort_pc, cron_expressions, sort_period, sort_start_time, idx,
    frequencies, sort_raised, sorted_expressions,
    call_clock,          \* the clock when the call began (history)
    \* the caller that asks for day, week and month in turn
    history

gcf_vars == <<pc, cron_expression, start_time, period, iter, end_time,
              frequency, next_run, raised, ret, steps>>
sort_vars == <<sort_pc, cron_expressions, sort_period, sort_start_time, idx,
               frequencies, sort_raised, sorted_expressions, call_clock>>
vars == <<clock, default_start_time, gcf_vars, sort_vars, history>>

Init ==
    /\ clock = InitClock
    /\ default_start_time = cron_start_time(InitClock)
    /\ pc = "idle" /\ cron_expression = <<>> /\ start_time = 0
    /\ period = "" /\ iter = NoIter /\ end_time = 0 /\ frequency = 0
    /\ next_run = 0 /\ raised = "none" /\ ret = None /\ steps = 0
    /\ sort_pc = "idle" /\ cron_expressions = <<>> /\ sort_period = ""
    /\ sort_start_time = 0 /\ idx = 0 /\ frequencies = <<>>
    /\ sort_raised = "none" /\ sorted_expressions = None /\ call_clock = 0
    /\ history = <<>>

\* get_cron_frequency(expr, st, p) is entered.
Enter(expr, st, p) ==
    /\ pc' = "L43"
    /\ cron_expression' = expr /\ start_time' = st /\ period' = p
    /\ iter' = NoIter /\ end_time' = 0 /\ frequency' = 0 /\ next_run' = 0
    /\ raised' = "none" /\ ret' = None /\ steps' = 0

\* A caller calls get_cron_frequency.
Call ==
    /\ pc = "idle" /\ sort_pc = "idle"
    /\ \E expr \in Expressions, st \in StartTimes, p \in Periods :
          Enter(expr, st, p)
    /\ UNCHANGED <<clock, default_start_time, sort_vars, history>>

\* Lines 43-56.
Begin ==
    /\ pc = "L43"
    /\ \E r \in {EntryStep(cron_expression, start_time, period)} :
          /\ pc' = r.pc /\ iter' = r.iter /\ end_time' = r.end_time
          /\ raised' = r.raised
    /\ frequency' = 0
    /\ UNCHANGED <<cron_expression, start_time, period, next_run, ret, steps>>
    /\ UNCHANGED <<clock, default_start_time, sort_vars, history>>

\* Lines 57-63: one turn of the loop; the turn that breaks returns.
Iterate ==
    /\ pc = "L58"
    /\ \E r \in {LoopStep(iter, end_time, frequency)} :
          /\ pc' = r.pc /\ iter' = r.iter /\ next_run' = r.next_run
          /\ frequency' = r.frequency /\ ret' = r.ret
    /\ steps' = steps + 1
    /\ UNCHANGED <<cron_expression, start_time, period, end_time, raised>>
    /\ UNCHANGED <<clock, default_start_time, sort_vars, history>>

Next == Call \/ Begin \/ Iterate

Spec == Init /\ [][Next]_vars

\* ------------------------------------------------------------------------
\* sort_crons_by_frequency
\* ------------------------------------------------------------------------
\* The wall clock advances; it is read only as a call begins and between
\* the computations of a call, which is where an advance can matter.
Tick ==
    /\ pc = "idle"
    /\ sort_pc \in {"idle", "L74"}
    /\ clock < InitClock + MaxTicks * TickSeconds
    /\ clock' = clock + TickSeconds
    /\ UNCHANGED <<default_start_time, gcf_vars, sort_vars, history>>

\* Line 73: the call begins and reads the clock.
SortCall ==
    /\ sort_pc = "idle" /\ pc = "idle"
    /\ \E exprs \in SortInputs, p \in SortPeriods :
          /\ cron_expressions' = exprs
          /\ sort_period' = p
    /\ sort_start_time' = SortStartTime(clock, default_start_time)
    /\ call_clock' = clock
    /\ sort_pc' = "L74" /\ idx' = 1 /\ frequencies' = <<>>
    /\ sort_raised' = "none" /\ sorted_expressions' = None
    /\ UNCHANGED <<clock, default_start_time, gcf_vars, history>>

\* Line 74: get_cron_frequency is called for the next expression.
SortCompute ==
    /\ sort_pc = "L74" /\ pc = "idle"
    /\ idx <= Len(cron_expressions)
    /\ Enter(cron_expressions[idx], StartTimeArg(sort_start_time, clock),
             sort_period)
    /\ UNCHANGED <<clock, default_start_time, sort_vars, history>>

\* Line 74: get_cron_frequency has returned or raised.
SortCollect ==
    /\ sort_pc = "L74" /\ pc = "done"
    /\ IF raised = "none"
       THEN /\ frequencies' = Append(frequencies, <<cron_expression, ret[1]>>)
            /\ idx' = idx + 1
            /\ UNCHANGED <<sort_pc, sort_raised, sorted_expressions>>
       ELSE \E r \in {Propagate(raised, frequencies)} :
                /\ sort_raised' = r.raised
                /\ sorted_expressions' = r.ret
                /\ sort_pc' = "done"
                /\ frequencies' = <<>>
                /\ UNCHANGED idx
    /\ pc' = "idle"
    /\ UNCHANGED <<cron_expression, start_time, period, iter, end_time,
                   frequency, next_run, raised, ret, steps>>
    /\ UNCHANGED <<cron_expressions, sort_period, sort_start_time, call_clock>>
    /\ UNCHANGED <<clock, default_start_time, history>>

\* Lines 76-77: every expression is counted; sort and return.
SortReturn ==
    /\ sort_pc = "L74" /\ pc = "idle"
    /\ idx > Len(cron_expressions)
    /\ sorted_expressions' = Some(sorted_reverse(frequencies))
    /\ sort_pc' = "done"
    /\ UNCHANGED <<cron_expressions, sort_period, sort_start_time, idx,
                   frequencies, sort_raised, call_clock>>
    /\ UNCHANGED <<clock, default_start_time, gcf_vars, history>>

\* The caller has the outcome; a later call may follow.
SortDone ==
    /\ sort_pc = "done"
    /\ sort_pc' = "idle" /\ cron_expressions' = <<>> /\ sort_period' = ""
    /\ sort_start_time' = 0 /\ idx' = 0 /\ frequencies' = <<>>
    /\ sort_raised' = "none" /\ sorted_expressions' = None /\ call_clock' = 0
    /\ pc' = "idle" /\ cron_expression' = <<>> /\ start_time' = 0
    /\ period' = "" /\ iter' = NoIter /\ end_time' = 0 /\ frequency' = 0
    /\ next_run' = 0 /\ raised' = "none" /\ ret' = None /\ steps' = 0
    /\ UNCHANGED <<clock, default_start_time, history>>

SortNext ==
    \/ Tick \/ SortCall \/ SortCompute \/ Begin \/ Iterate
    \/ SortCollect \/ SortReturn \/ SortDone

SortSpec == Init /\ [][SortNext]_vars

\* ------------------------------------------------------------------------
\* A caller that asks for the day, week and month frequency of one
\* expression from one start time
\* ------------------------------------------------------------------------
MonoCall ==
    /\ pc = "idle" /\ sort_pc = "idle" /\ history = <<>>
    /\ \E expr \in Expressions, st \in StartTimes :
          Enter(expr, st, MonoPeriods[1])
    /\ UNCHANGED <<clock, default_start_time, sort_vars, history>>

MonoNext ==
    /\ pc = "done" /\ ret # None
    /\ Len(history) < Len(MonoPeriods)
    /\ history' = Append(history, ret[1])
    /\ IF Len(history') < Len(MonoPeriods)
       THEN Enter(cron_expression, start_time, MonoPeriods[Len(history') + 1])
       ELSE UNCHANGED gcf_vars
    /\ UNCHANGED <<clock, default_start_time, sort_vars>>

MonoStep == MonoCall \/ Begin \/ Iterate \/ MonoNext

MonoSpec == Init /\ [][MonoStep]_vars

\* ------------------------------------------------------------------------
\* What the properties are stated with
\* ------------------------------------------------------------------------
\* The window lengths the specification gives, in seconds.
WindowLength(p) ==
    CASE p = "day"   -> 24 * 3600
      [] p = "week"  -> 7 * 24 * 3600
      [] p = "month" -> 30 * 24 * 3600

\* The scheduled occurrences t of a valid expression with lo < t < hi.
OccurrencesBetween(expr, lo, hi) ==
    LET it   == croniter(expr, lo)
        days == {d \in (lo \div SecondsPerDay) .. (hi \div SecondsPerDay) :
                    DayMatch(it, d)}
    IN  {c \in days \X it.hours \X it.minutes :
            /\ lo < c[1] * SecondsPerDay + c[2] * 3600 + c[3] * 60
            /\ c[1] * SecondsPerDay + c[2] * 3600 + c[3] * 60 < hi}

\* The number of occurrences in the period's window after `start`.
WindowCount(expr, start, p) ==
    Cardinality(OccurrencesBetween(expr, start, start + WindowLength(p)))

\* Whether t is an occurrence of the valid expression.
IsOccurrence(expr, t) ==
    OccurrencesBetween(expr, t - 1, t + 1) # {}

\* How often x is an element of the sequence s.
CountOf(s, x) == Cardinality({i \in 1 .. Len(s) : s[i] = x})

\* The sequence of the first components of a sequence of pairs.
Firsts(s) == [i \in 1 .. Len(s) |-> s[i][1]]

\* The pairs of s whose count is c, in their order in s.
WithCount(s, c) == SelectSeq(s, LAMBDA q : q[2] = c)

\* The most occurrences a window can hold at one per minute.
MinutesIn(p) ==
    CASE p = "day"   -> 1440
      [] p = "week"  -> 10080
      [] p = "month" -> 43200

AllValid(exprs) == \A i \in 1 .. Len(exprs) : CronValid(exprs[i])

\* ------------------------------------------------------------------------
\* Properties
\* ------------------------------------------------------------------------

\* C1: for a valid expression and a period in {day, week, month} the call
\* returns exactly the number of occurrences t with
\* start_time < t < start_time + window(period); occurrences equal to either
\* end are not counted, and the result is 0 when there is none.
C1_ExactCount ==
    (pc = "done" /\ CronValid(cron_expression) /\ period \in {"day", "week", "month"})
        => /\ raised = "none"
           /\ ret = Some(WindowCount(cron_expression, start_time, period))

\* C1 witness: a call from a start time that is itself an occurrence, whose
\* window ends on an occurrence, returned a count that leaves both out.
C1_Witness ==
    /\ pc = "done" /\ raised = "none"
    /\ cron_expression = Hourly /\ period = "day"
    /\ IsOccurrence(cron_expression, start_time)
    /\ IsOccurrence(cron_expression, end_time)
    /\ next_run = end_time
    /\ ret = Some(23)

\* C2 as stated: whenever the period is not day, week or month the call
\* fails with the unsupported-period error, returns nothing, and has taken
\* no next-occurrence step and counted nothing.
C2_Original ==
    (pc = "done" /\ period \notin {"day", "week", "month"})
        => /\ raised = "ValueError"
           /\ ret = None /\ steps = 0 /\ frequency = 0

\* C2 amended: for a valid expression, whenever the period is not day, week
\* or month the call fails with the unsupported-period error, returns
\* nothing, never enters the loop, takes no next-occurrence step and counts
\* nothing.
C2_UnsupportedPeriodFirst ==
    (pc \notin {"idle", "L43"} /\ CronValid(cron_expression)
        /\ period \notin {"day", "week", "month"})
        => /\ pc = "done"
           /\ raised = "ValueError"
           /\ ret = None /\ steps = 0 /\ frequency = 0

\* C2 witness: a valid expression with the period "year" has failed.
C2_Witness ==
    /\ pc = "done" /\ cron_expression = EveryMinute /\ period = "year"
    /\ raised = "ValueError" /\ steps = 0

\* C3: for valid expressions and a valid period the call returns a sequence
\* of (expression, count) pairs as long as the input, with the input's
\* expressions as often as the input has them, each with its frequency from
\* the call's start time, the counts non-increasing.
C3_SortedPairs ==
    (sort_pc = "done" /\ AllValid(cron_expressions)
        /\ sort_period \in {"day", "week", "month"})
        => /\ sort_raised = "none"
           /\ sorted_expressions # None
           /\ LET out == sorted_expressions[1]
              IN  /\ Len(out) = Len(cron_expressions)
                  /\ \A e \in SortExpressions :
                        CountOf(Firsts(out), e) = CountOf(cron_expressions, e)
                  /\ \A i \in 1 .. Len(out) :
                        out[i][2] = WindowCount(out[i][1],
                                                datetime_now(call_clock),
                                                sort_period)
                  /\ \A i \in 1 .. Len(out) - 1 : out[i][2] >= out[i + 1][2]

\* C3 witness: three expressions given in ascending order of frequency came
\* back in descending order.
C3_Witness ==
    /\ sort_pc = "done" /\ sort_raised = "none"
    /\ cron_expressions = <<Daily, Every8h, Every8h>>
    /\ sort_period = "week"
    /\ sorted_expressions = Some(<<<<Every8h, 21>>, <<Every8h, 21>>, <<Daily, 7>>>>)

\* C4: the pairs with one count stand in the output in the order of their
\* expressions in the input.
C4_Stable ==
    (sort_pc = "done" /\ sort_raised = "none")
        => /\ Firsts(frequencies) = cron_expressions
           /\ \A i \in 1 .. Len(frequencies) :
                 WithCount(sorted_expressions[1], frequencies[i][2])
                     = WithCount(frequencies, frequencies[i][2])

\* C4 witness: two different expressions with the same count, behind a less
\* frequent one in the input; the output has moved them ahead of it and kept
\* their order.
C4_Witness ==
    /\ sort_pc = "done" /\ sort_raised = "none"
    /\ cron_expressions = <<Noon, Daily, Every8h>>
    /\ sort_period = "day"
    /\ sorted_expressions = Some(<<<<Every8h, 3>>, <<Noon, 1>>, <<Daily, 1>>>>)

\* The error of the first expression that fails.
FirstError(exprs, p) ==
    LET bad == {i \in 1 .. Len(exprs) :
                   ~CronValid(exprs[i]) \/ p \notin {"day", "week", "month"}}
        k   == CHOOSE i \in bad : \A j \in bad : i <= j
    IN  IF CronValid(exprs[k]) THEN "ValueError" ELSE "CroniterBadCronError"

\* C5: with a malformed expression anywhere in the input, or an invalid
\* period and a non-empty input, the call fails with the error of the first
\* failing expression and returns nothing; and a call that fails never has
\* a return value.
C5_NoPartialResults ==
    /\ sort_raised # "none" => sorted_expressions = None
    /\ (sort_pc = "done"
          /\ (~AllValid(cron_expressions)
                \/ (sort_period \notin {"day", "week", "month"}
                      /\ cron_expressions # <<>>)))
        => /\ sort_raised = FirstError(cron_expressions, sort_period)
           /\ sorted_expressions = None

\* C5 witness: the call failed at its third expression, after two
\* frequencies had been computed.
C5_Witness ==
    /\ sort_pc = "done" /\ sort_raised = "CroniterBadCronError"
    /\ idx = 3 /\ Len(cron_expressions) = 3
    /\ CronValid(cron_expressions[1]) /\ CronValid(cron_expressions[2])
    /\ sorted_expressions = None

\* C6: the counts a caller gets for day, week and month, for one expression
\* and one start time, never decrease.
C6_Monotone ==
    \A i \in 1 .. Len(history) - 1 : history[i] <= history[i + 1]

\* C6 witness: the three counts of one expression, each larger than the one
\* before.
C6_Witness ==
    /\ Len(history) = 3
    /\ history[1] < history[2] /\ history[2] < history[3]

\* C7: the loop makes progress and stops: every occurrence it counts lies
\* before end_time and at least a minute after the one before, it counts at
\* most 1440 (day), 10080 (week), 43200 (month) occurrences, the step that
\* ends the loop is the first with an occurrence >= end_time, and it is the
\* only step beyond the counted ones.
C7_LoopBounded ==
    (pc \in {"L58", "done"} /\ raised = "none")
        => /\ frequency <= MinutesIn(period)
           /\ steps <= MinutesIn(period) + 1
           /\ (pc = "L58" /\ steps > 0)
                 => /\ steps = frequency
                    /\ iter.cur = next_run
                    /\ next_run > start_time + 60 * (steps - 1)
                    /\ next_run < end_time
           /\ pc = "done"
                 => /\ steps = frequency + 1
                    /\ ret = Some(frequency)
                    /\ next_run >= end_time

\* C7 witness: the every-minute schedule over a month: 43200 occurrences
\* counted, 43201 steps.
C7_Witness ==
    /\ pc = "done" /\ cron_expression = EveryMinute /\ period = "month"
    /\ frequency = 43200 /\ steps = 43201

\* C8: "* * * * *" over a day, from a start time that is not on a minute,
\* gives 1440.
C8_EveryMinuteDay ==
    (pc = "done" /\ cron_expression = EveryMinute /\ period = "day"
        /\ start_time % 60 # 0)
        => ret = Some(1440)

\* C8 witness: such a call has returned; its last step reached the first
\* minute past the window.
C8_Witness ==
    /\ pc = "done" /\ cron_expression = EveryMinute /\ period = "day"
    /\ start_time % 60 # 0
    /\ ret = Some(1440)
    /\ next_run > end_time /\ next_run < end_time + 60

\* C9: a call of sort_crons_by_frequency counts every expression from the
\* local time at which the call began, however the clock moves meanwhile.
C9_OneStartTime ==
    sort_pc # "idle"
        => /\ sort_start_time = datetime_now(call_clock)
           /\ pc # "idle" => start_time = datetime_now(call_clock)
           /\ \A i \in 1 .. Len(frequencies) :
                 frequencies[i][2] = WindowCount(frequencies[i][1],
                                                 datetime_now(call_clock),
                                                 sort_period)

\* C9 witness: a call that began after the clock had moved on from import,
\* during which the clock moved again, and whose counts differ from those
\* of the import time and from those of the time it ended.
C9_Witness ==
    /\ sort_pc = "done" /\ sort_raised = "none"
    /\ Len(cron_expressions) >= 2
    /\ call_clock > InitClock /\ clock > call_clock
    /\ \E i \in 1 .. Len(frequencies) :
          /\ frequencies[i][2] # WindowCount(frequencies[i][1],
                                             datetime_now(clock), sort_period)
          /\ frequencies[i][2] # WindowCount(frequencies[i][1],
                                             default_start_time, sort_period)

\* C10: a malformed expression fails in the engine whatever the period is:
\* the call ends with the engine's error, and the period check is never
\* reached.
C10_ExpressionFirst ==
    (pc \notin {"idle", "L43"} /\ ~CronValid(cron_expression))
        => /\ pc = "done"
           /\ raised = "CroniterBadCronError"
           /\ ret = None /\ steps = 0

\* C10 witness: a malformed expression with an unsupported period.
C10_Witness ==
    /\ pc = "done" /\ cron_expression = BadMinute /\ period = "year"
    /\ raised = "CroniterBadCronError"
====
